---- MODULE Spec2Model ----
(***************************************************************************)
(* Browser sandbox provider (packages/browser/src/index.ts) and its        *)
(* Pyodide worker (workers/python.worker).  The provider side keeps the    *)
(* registry and talks to each worker through callWorker; the worker side   *)
(* is the async onmessage dispatcher with its memoized runtime load and    *)
(* the output-capturing wrapper.  One action per handler segment between   *)
(* two suspension points.                                                  *)
(***************************************************************************)
EXTENDS Integers, Sequences, FiniteSets, TLC

\* ------------------------------------------------------------------ bounds
MaxWorkers == 3
MaxCalls == 2
MaxWatchers == 1

Workers == 1..MaxWorkers
Watchers == 1..MaxWatchers

\* ------------------------------------------------------------ input values
Runtimes == {"none", "python", "node"}      \* "none" is undefined
UserSandboxIds == {"none", "a"}             \* options.sandboxId, "none" is undefined
Commands == {"ls"}
OtherTypes == {"ping"}                      \* a message type outside the protocol

\* optional field of a message: {} is absent, {v} is present
None == {}
Some(v) == {v}
The(o) == CHOOSE v \in o : TRUE

\* a piece of text is a sequence of tokens, each naming the call that wrote it
Tok(by, what) == [by |-> by, what |-> what]

\* submitted source text: what it prints and how it ends
Codes ==
  { [prints |-> TRUE,  end |-> "ok"],
    [prints |-> TRUE,  end |-> "exit3"],
    [prints |-> FALSE, end |-> "raise"],
    [prints |-> TRUE,  end |-> "fatal"] }
ProbeCode == [prints |-> TRUE, end |-> "ok"]
NoCode == [prints |-> FALSE, end |-> "ok"]

VARIABLES
  registry,     \* insertion-ordered Map<string, BrowserSandbox>, as a sequence
  nWorkers,     \* number of workers spawned so far
  terminated,   \* workers whose terminate() took effect
  nCalls,       \* number of callWorker invocations so far (the last fresh id)
  callsLeft,    \* number of callWorker invocations the run may still make
  pending,      \* callWorker promises not yet resolved
  listeners,    \* per worker: ids of the registered 'message' listeners
  inbox,        \* per worker: messages posted to it, not yet dispatched
  outbox,       \* per worker: replies it posted, not yet dispatched on the page
  handlers,     \* per worker: onmessage invocations suspended at an await
  pyPromise,    \* per worker: "null", "pending", "resolved", "rejected"
  loadStarts,   \* per worker: number of loadPyodide calls
  ensureCalls,  \* per worker: number of ensurePyodide calls
  py,           \* per worker: interpreter globals _out, _err, sys.stdout, sys.stderr
  handles,      \* sandbox objects returned by create
  fsHandle,     \* __fs, the shared filesystem service handle: "null" or "created"
  watchers,     \* per watchFS call: where it stands and whether it has onChange
  lastOp        \* the provider call that last returned, threw or suspended

vars == << registry, nWorkers, terminated, nCalls, callsLeft, pending, listeners, inbox,
           outbox, handlers, pyPromise, loadStarts, ensureCalls, py, handles,
           fsHandle, watchers, lastOp >>

pageVars == << registry, nWorkers, terminated, nCalls, callsLeft, pending, listeners,
               handles, lastOp >>
workerVars == << handlers, pyPromise, loadStarts, ensureCalls, py >>
fsVars == << fsHandle, watchers >>
sandboxVars == << registry, nWorkers, terminated, nCalls, callsLeft, pending, listeners, inbox,
                  outbox, handlers, pyPromise, loadStarts, ensureCalls, py, handles >>

\* ------------------------------------------------------------- registry Map
Keys(m) == { m[i].id : i \in 1..Len(m) }
MapHas(m, k) == k \in Keys(m)
MapGet(m, k) == LET i == CHOOSE j \in 1..Len(m) : m[j].id = k IN m[i]
MapSet(m, sb) ==
  IF MapHas(m, sb.id)
    THEN [i \in 1..Len(m) |-> IF m[i].id = sb.id THEN sb ELSE m[i]]
    ELSE Append(m, sb)
\* a delete that empties the map
MapDelete_Clear(m, k) == << >>

MapDelete(m, k) == SelectSeq(m, LAMBDA sb : sb.id # k)

\* ------------------------------------------------------------------- Init
\* op: the call; sandboxId: destroy's argument; fault: worker.terminate() threw;
\* outcome: "ok" (returned), "threw", "pending" (suspended at an await);
\* result: what the call returned; resolved: the callWorker promises
\* the step resolved, each with the reply it resolved with
Op(op, sandboxId, fault, outcome, result, resolved) ==
  [op |-> op, sandboxId |-> sandboxId, fault |-> fault, outcome |-> outcome,
   result |-> result, resolved |-> resolved]

NoOp == Op("none", "none", FALSE, "ok", None, {})

PyInit == [out |-> << >>, err |-> << >>, stdout |-> "orig", stderr |-> "orig"]

\* the state after module load, for a run that may make `calls` calls
InitWith(calls) ==
  /\ registry = << >>
  /\ nWorkers = 0
  /\ terminated = {}
  /\ nCalls = 0
  /\ callsLeft = calls
  /\ pending = {}
  /\ listeners = [w \in Workers |-> {}]
  /\ inbox = [w \in Workers |-> << >>]
  /\ outbox = [w \in Workers |-> << >>]
  /\ handlers = [w \in Workers |-> << >>]
  /\ pyPromise = [w \in Workers |-> "null"]
  /\ loadStarts = [w \in Workers |-> 0]
  /\ ensureCalls = [w \in Workers |-> 0]
  /\ py = [w \in Workers |-> PyInit]
  /\ handles = {}
  /\ fsHandle = "null"
  /\ watchers = [k \in Watchers |-> [state |-> "idle", onChange |-> FALSE]]
  /\ lastOp = NoOp

Init == InitWith(MaxCalls)

\* =========================================================== worker side

\* buffers created once and reused by every execution
FreshBuffer_Reused(prev) == prev

\* wrapper line 74: every execution binds new StringIO objects to _out, _err
FreshBuffer(prev) == << >>

\* a wrapper that never assigns the saved stream back
RestoreStream_Never(old, cur) == cur

\* wrapper line 89: the finally clause puts the saved stream back
RestoreStream(old, cur) == old

\* wrapper lines 80-87: exit status the wrapper derives from how the code ended
ExitCodeOf(end) ==
  CASE end = "ok"      -> 0
    [] end = "exit3"   -> 3
    [] end = "raise"   -> 1
    [] OTHER           -> 1

\* wrapper lines 72-91, run by the interpreter without a suspension point:
\* "fatal" is a fault no except clause of the wrapper catches
PyWrapper(st, by, code) ==
  LET old == st.stdout
      oldErr == st.stderr
      out0 == FreshBuffer(st.out)
      err0 == FreshBuffer(st.err)
      out1 == IF code.prints THEN Append(out0, Tok(by, "print")) ELSE out0
      err1 == IF code.end = "raise" THEN Append(err0, Tok(by, "trace")) ELSE err0
  IN  [ raised |-> code.end = "fatal",
        exitCode |-> ExitCodeOf(code.end),
        out |-> out1,
        err |-> err1,
        py |-> [out |-> out1, err |-> err1,
                stdout |-> RestoreStream(old, "captured"),
                stderr |-> RestoreStream(oldErr, "captured")] ]

\* ok reported whenever the interpreter call returned
OkOf_Always(exitCode) == TRUE

OkOf(exitCode) == exitCode = 0

execWithCapture(st, by, code) ==
  LET r == PyWrapper(st, by, code)
  IN  [ py |-> r.py,
        res |-> IF r.raised
                  THEN [ok |-> FALSE, exitCode |-> Some(1), stdout |-> None,
                        stderr |-> Some(<< Tok(by, "e.message") >>),
                        error |-> Some(<< Tok(by, "String(e)") >>)]
                  ELSE [ok |-> OkOf(r.exitCode), exitCode |-> Some(r.exitCode),
                        stdout |-> Some(r.out), stderr |-> Some(r.err),
                        error |-> None] ]

\* postMessage({ id, ...result })
Reply(id, res) ==
  [id |-> id, ok |-> res.ok, exitCode |-> res.exitCode, stdout |-> res.stdout,
   stderr |-> res.stderr, error |-> res.error]

\* the catch clause of the dispatcher
FaultReply(id) ==
  [id |-> id, ok |-> FALSE, exitCode |-> Some(1), stdout |-> None,
   stderr |-> Some(<< Tok(id, "String(e)") >>),
   error |-> Some(<< Tok(id, "e.message") >>)]

\* the fall-through of the dispatcher
UnknownReply(id, type) ==
  [id |-> id, ok |-> FALSE, exitCode |-> Some(1), stdout |-> None,
   stderr |-> None, error |-> Some(<< Tok(id, "Unknown message type: " \o type) >>)]

\* importScripts: the primary path, the fallback path, or both throw
ImportOutcomes == {"primary", "fallback", "fail"}

\* the loader without the `if (!pyPromise)` test
ensurePyodide_NoMemo(p, n, imp) ==
  IF imp = "fail" /\ p = "null"
    THEN [threw |-> TRUE, promise |-> "null", starts |-> n]
    ELSE [threw |-> FALSE, promise |-> "pending", starts |-> n + 1]

ensurePyodide(p, n, imp) ==
  IF p = "null"
    THEN IF imp = "fail"
           THEN [threw |-> TRUE, promise |-> "null", starts |-> n]
           ELSE [threw |-> FALSE, promise |-> "pending", starts |-> n + 1]
    ELSE [threw |-> FALSE, promise |-> p, starts |-> n]

\* a dispatcher that loads the runtime before it looks at the type
NeedsRuntime_Any(type) == TRUE

\* which message types make the dispatcher ask for the runtime
NeedsRuntime(type) == type \in {"init", "runCode"}

Alive(w) == w \in 1..nWorkers /\ w \notin terminated

Post(w, r) == outbox' = [outbox EXCEPT ![w] = Append(@, r)]

\* onmessage, from the delivery of a message to its first suspension point
\* (or to its reply when it never suspends)
onmessage(w, imp) ==
  /\ Alive(w)
  /\ inbox[w] # << >>
  /\ LET msg == Head(inbox[w])
         e == ensurePyodide(pyPromise[w], loadStarts[w], imp)
     IN  /\ inbox' = [inbox EXCEPT ![w] = Tail(@)]
         /\ IF NeedsRuntime(msg.type)
              THEN /\ pyPromise' = [pyPromise EXCEPT ![w] = e.promise]
                   /\ loadStarts' = [loadStarts EXCEPT ![w] = e.starts]
                   /\ ensureCalls' = [ensureCalls EXCEPT ![w] = @ + 1]
                   /\ IF e.threw \/ e.promise = "rejected"
                        THEN /\ Post(w, FaultReply(msg.id))
                             /\ UNCHANGED handlers
                        ELSE /\ handlers' = [handlers EXCEPT ![w] = Append(@,
                                  [id |-> msg.id, type |-> msg.type, code |-> msg.code,
                                   phase |-> IF e.promise = "pending" THEN "awaitLoad"
                                                                       ELSE "awaitExec"])]
                             /\ UNCHANGED outbox
              ELSE /\ Post(w, UnknownReply(msg.id, msg.type))
                   /\ UNCHANGED << handlers, pyPromise, loadStarts, ensureCalls >>
  /\ UNCHANGED << py, pageVars, fsVars >>

\* the promise returned by loadPyodide settles; the handlers awaiting it
\* resume in the order they suspended, within the same microtask checkpoint
FaultReplies(hs) == [i \in 1..Len(hs) |-> FaultReply(hs[i].id)]

loadSettles(w, ok) ==
  /\ Alive(w)
  /\ pyPromise[w] = "pending"
  /\ pyPromise' = [pyPromise EXCEPT ![w] = IF ok THEN "resolved" ELSE "rejected"]
  /\ LET waiting == SelectSeq(handlers[w], LAMBDA h : h.phase = "awaitLoad")
         rest == SelectSeq(handlers[w], LAMBDA h : h.phase # "awaitLoad")
     IN  IF ok
           THEN /\ handlers' = [handlers EXCEPT ![w] =
                                  [i \in 1..Len(@) |-> [@[i] EXCEPT !.phase = "awaitExec"]]]
                /\ UNCHANGED outbox
           ELSE /\ handlers' = [handlers EXCEPT ![w] = rest]
                /\ outbox' = [outbox EXCEPT ![w] = @ \o FaultReplies(waiting)]
  /\ UNCHANGED << loadStarts, ensureCalls, py, inbox, pageVars, fsVars >>

\* a branch that posts its result and, lacking the return, falls through to
\* the unknown-type reply
HandlerReplies_NoReturn(id, type, res) == << Reply(id, res), UnknownReply(id, type) >>

\* what the init and runCode branches post: the result, then they return
HandlerReplies(id, type, res) == << Reply(id, res) >>

\* the wrapper of one suspended handler runs and the handler posts its reply
RemoveAt(s, i) == [j \in 1..(Len(s) - 1) |-> IF j < i THEN s[j] ELSE s[j + 1]]

execCompletes(w, i) ==
  /\ Alive(w)
  /\ i \in 1..Len(handlers[w])
  /\ handlers[w][i].phase = "awaitExec"
  /\ LET h == handlers[w][i]
         code == IF h.type = "init" THEN ProbeCode ELSE h.code
         x == execWithCapture(py[w], h.id, code)
     IN  /\ py' = [py EXCEPT ![w] = x.py]
         /\ outbox' = [outbox EXCEPT ![w] = @ \o HandlerReplies(h.id, h.type, x.res)]
         /\ handlers' = [handlers EXCEPT ![w] = RemoveAt(@, i)]
  /\ UNCHANGED << pyPromise, loadStarts, ensureCalls, inbox, pageVars, fsVars >>

\* ============================================================= page side

\* a listener that resolves on whatever message arrives
ListenerMatches_NoIdTest(callId, replyId) == TRUE

\* the listener's test: e.data?.id !== id returns without resolving
ListenerMatches(callId, replyId) == replyId = callId

\* the exit status derived from ok alone, ignoring response.exitCode
makeExecutionResult_OkOnly(sandboxId, response) ==
  [ exitCode |-> IF response.ok THEN 0 ELSE 1,
    stdout |-> IF response.stdout # None THEN The(response.stdout) ELSE << >>,
    stderr |-> IF response.stderr # None THEN The(response.stderr) ELSE << >>,
    sandboxId |-> sandboxId ]

makeExecutionResult(sandboxId, response) ==
  [ exitCode |-> IF response.exitCode # None THEN The(response.exitCode)
                 ELSE IF response.ok THEN 0 ELSE 1,
    stdout |-> IF response.stdout # None THEN The(response.stdout) ELSE << >>,
    stderr |-> IF response.stderr # None THEN The(response.stderr)
               ELSE IF response.ok THEN << >>
               ELSE IF response.error # None THEN The(response.error) ELSE << >>,
    sandboxId |-> sandboxId ]

\* `browser-sb-${crypto.randomUUID()}`: one fresh id per spawned worker
GenId(n) == "browser-sb-" \o ToString(n)

SandboxIdDomain == (UserSandboxIds \ {"none"}) \cup { GenId(n) : n \in Workers }

Sandbox(id, w) == [id |-> id, runtime |-> "python", worker |-> w]

\* a sandbox object that create never returned
GhostSandbox == [id |-> "ghost", runtime |-> "python", worker |-> 0]

PendingCall(id) == CHOOSE c \in pending : c.id = id

\* callWorker up to the return of the promise: fresh id, listener, postMessage
\* (a message posted to a terminated worker is discarded)
callWorker(w, type, code, purpose, sandboxId) ==
  LET id == nCalls + 1
  IN  /\ callsLeft > 0
      /\ callsLeft' = callsLeft - 1
      /\ nCalls' = id
      /\ pending' = pending \cup {[id |-> id, worker |-> w, type |-> type, code |-> code,
                                   purpose |-> purpose, sandboxId |-> sandboxId]}
      /\ listeners' = [listeners EXCEPT ![w] = @ \cup {id}]
      /\ inbox' = IF w \in terminated THEN inbox
                  ELSE [inbox EXCEPT ![w] = Append(@, [id |-> id, type |-> type, code |-> code])]

\* config.runtime taken before options.runtime
ResolveRuntime_ConfigFirst(opt, cfg) ==
  IF cfg # "none" THEN cfg ELSE IF opt # "none" THEN opt ELSE "python"

\* options?.runtime ?? config.runtime ?? 'python'
ResolveRuntime(opt, cfg) ==
  IF opt # "none" THEN opt ELSE IF cfg # "none" THEN cfg ELSE "python"

RuntimeSupported(runtime) == runtime = "python"

\* create, up to the await of the init round trip
create(opt, cfg, sid) ==
  IF ~RuntimeSupported(ResolveRuntime(opt, cfg))
    THEN /\ lastOp' = Op("create", "none", FALSE, "threw", None, {})
         /\ UNCHANGED << registry, nWorkers, terminated, nCalls, callsLeft, pending, listeners,
                         handles, inbox, outbox, workerVars, fsVars >>
    ELSE /\ nWorkers < MaxWorkers
         /\ LET w == nWorkers + 1
                sandboxId == IF sid # "none" THEN sid ELSE GenId(w)
            IN  /\ nWorkers' = w
                /\ callWorker(w, "init", NoCode, "create", sandboxId)
                /\ lastOp' = Op("create", "none", FALSE, "pending", None, {})
         /\ UNCHANGED << registry, terminated, handles, outbox, workerVars, fsVars >>

\* a lookup that wraps whatever registry.get returned, undefined included
getById_NoNullTest(sandboxId) ==
  IF MapHas(registry, sandboxId) THEN Some(MapGet(registry, sandboxId))
  ELSE Some([id |-> sandboxId, runtime |-> "none", worker |-> 0])

getById(sandboxId) ==
  IF MapHas(registry, sandboxId) THEN Some(MapGet(registry, sandboxId)) ELSE None

list == registry

\* the delete placed after the try block instead of in a finally clause
RegistryAfterDestroy_NoFinally(m, sandboxId, threw) ==
  IF threw THEN m ELSE MapDelete(m, sandboxId)

\* what the finally clause leaves in the registry
RegistryAfterDestroy(m, sandboxId, threw) == MapDelete(m, sandboxId)

\* a catch clause that swallows the fault
DestroyOutcome_Swallow(threw) == "ok"

\* how destroy ends: try/finally has no catch clause
DestroyOutcome(threw) == IF threw THEN "threw" ELSE "ok"

\* destroy; threw: terminate() throws; took: the worker is stopped all the same.
\* A stopped worker loses its global scope and its queued messages.
destroy(sandboxId, threw, took) ==
  /\ threw \/ took
  /\ IF MapHas(registry, sandboxId)
       THEN LET w == MapGet(registry, sandboxId).worker
                stops == took /\ w \notin terminated
            IN  /\ terminated' = IF took THEN terminated \cup {w} ELSE terminated
                /\ inbox' = IF stops THEN [inbox EXCEPT ![w] = << >>] ELSE inbox
                /\ outbox' = IF stops THEN [outbox EXCEPT ![w] = << >>] ELSE outbox
                /\ handlers' = IF stops THEN [handlers EXCEPT ![w] = << >>] ELSE handlers
                /\ pyPromise' = IF stops THEN [pyPromise EXCEPT ![w] = "null"] ELSE pyPromise
                /\ loadStarts' = IF stops THEN [loadStarts EXCEPT ![w] = 0] ELSE loadStarts
                /\ ensureCalls' = IF stops THEN [ensureCalls EXCEPT ![w] = 0] ELSE ensureCalls
                /\ py' = IF stops THEN [py EXCEPT ![w] = PyInit] ELSE py
                /\ registry' = RegistryAfterDestroy(registry, sandboxId, threw)
                /\ lastOp' = Op("destroy", sandboxId, threw, DestroyOutcome(threw), None, {})
       ELSE /\ ~threw
            /\ UNCHANGED << terminated, registry, inbox, outbox, workerVars >>
            /\ lastOp' = Op("destroy", sandboxId, FALSE, "ok", None, {})
  /\ UNCHANGED << nWorkers, nCalls, callsLeft, pending, listeners, handles, fsVars >>

\* runCode, up to the await of the round trip
runCode(sb, code) ==
  /\ IF sb.runtime # "python"
       THEN /\ lastOp' = Op("runCode", "none", FALSE, "ok",
                   Some(makeExecutionResult(sb.id,
                     [ok |-> FALSE, exitCode |-> Some(127), stdout |-> None,
                      stderr |-> Some(<< Tok(0, "Unsupported runtime") >>), error |-> None])), {})
            /\ UNCHANGED << nCalls, callsLeft, pending, listeners, inbox >>
       ELSE /\ callWorker(sb.worker, "runCode", code, "runCode", sb.id)
            /\ lastOp' = Op("runCode", "none", FALSE, "pending", None, {})
  /\ UNCHANGED << registry, nWorkers, terminated, handles, outbox, workerVars, fsVars >>

runCommand(sb, command) ==
  /\ lastOp' = Op("runCommand", "none", FALSE, "ok",
        Some(makeExecutionResult(sb.id,
          [ok |-> FALSE, exitCode |-> Some(127), stdout |-> None,
           stderr |-> Some(<< Tok(0, command) >>), error |-> None])), {})
  /\ UNCHANGED << registry, nWorkers, terminated, nCalls, callsLeft, pending, listeners, handles,
                  inbox, outbox, workerVars, fsVars >>

\* the provider's getById call: a lookup whose result the caller receives
getByIdCall(sandboxId) ==
  /\ lastOp' = Op("getById", sandboxId, FALSE, "ok", getById(sandboxId), {})
  /\ UNCHANGED << registry, nWorkers, terminated, nCalls, callsLeft, pending, listeners, handles,
                  inbox, outbox, workerVars, fsVars >>

\* the provider's list call; what it returns is list, evaluated in this state
listCall ==
  /\ lastOp' = Op("list", "none", FALSE, "ok", None, {})
  /\ UNCHANGED << registry, nWorkers, terminated, nCalls, callsLeft, pending, listeners, handles,
                  inbox, outbox, workerVars, fsVars >>

\* the record getInfo builds from the sandbox object it is given
SandboxInfo(sb) ==
  [id |-> sb.id, provider |-> "@computesdk/browser", runtime |-> sb.runtime,
   status |-> "running", timeout |-> 0]

\* getInfo returns SandboxInfo(sb)
getInfo(sb) ==
  /\ lastOp' = Op("getInfo", "none", FALSE, "ok", None, {})
  /\ UNCHANGED << registry, nWorkers, terminated, nCalls, callsLeft, pending, listeners, handles,
                  inbox, outbox, workerVars, fsVars >>

\* getUrl returns the empty string
getUrl ==
  /\ lastOp' = Op("getUrl", "none", FALSE, "ok", None, {})
  /\ UNCHANGED << registry, nWorkers, terminated, nCalls, callsLeft, pending, listeners, handles,
                  inbox, outbox, workerVars, fsVars >>

\* ------------------------------------------------------------ filesystem
\* a path is a sequence of characters
PathChars == {"/", "a"}
MaxPathLen == 2
Paths == UNION { [1..n -> PathChars] : n \in 0..MaxPathLen }

\* the path the provider-level runs pass to the facade
ProviderPaths == { << "a" >> }

\* getFS: the service is created on first use and kept
getFS(handle) == IF handle = "null" THEN "created" ELSE handle

\* a prefix added without looking at the first character
normalizePath_AlwaysPrefix(p) == << "/" >> \o p

\* p && p.startsWith('/') ? p : `/${p || ''}`
normalizePath(p) == IF p # << >> /\ Head(p) = "/" THEN p ELSE << "/" >> \o p

FsMethods == {"readFile", "writeFile", "mkdir", "readdir", "exists", "remove"}

\* the service method each facade operation calls
ServiceMethod(method) ==
  CASE method = "readdir" -> "readDir"
    [] method = "exists"  -> "stat"
    [] OTHER              -> method

\* a facade in which exists has no try/catch around the lookup
FacadeOutcome_NoCatch(method, fault) == IF fault THEN "threw" ELSE "ok"

\* how a facade operation ends when its service call raises (fault) or not:
\* only exists has a catch clause
FacadeOutcome(method, fault) ==
  IF fault /\ method # "exists" THEN "threw" ELSE "ok"

\* what a facade operation returns: exists a boolean, readFile and readdir
\* what the service holds at the path, the others nothing
FacadeReturns(method, np, fault) ==
  CASE method = "exists" /\ FacadeOutcome(method, fault) = "ok" -> Some(~fault)
    [] method \in {"readFile", "readdir"} /\ ~fault -> Some([at |-> np])
    [] OTHER -> None

\* one operation of browserFs: the single service call it makes, how it ends
\* and what it returns; fault: the service call raises
browserFs(method, path, fault) ==
  LET np == normalizePath(path)
  IN  [ service |-> [method |-> ServiceMethod(method), path |-> np],
        outcome |-> FacadeOutcome(method, fault),
        returns |-> FacadeReturns(method, np, fault) ]

\* the provider's filesystem wrappers delegate to browserFs and end as it ends
filesystem(method, path, fault) ==
  /\ fsHandle' = getFS(fsHandle)
  /\ lastOp' = Op("filesystem", "none", FALSE, browserFs(method, path, fault).outcome,
                  None, {})
  /\ UNCHANGED << sandboxVars, watchers >>

\* one operation of browserFs called directly, with what the service received
browserFsCall(method, path, fault) ==
  /\ fsHandle' = getFS(fsHandle)
  /\ LET r == browserFs(method, path, fault)
     IN  lastOp' = Op(method, "none", fault, r.outcome,
                      Some([arg |-> path, service |-> r.service, returns |-> r.returns]), {})
  /\ UNCHANGED << sandboxVars, watchers >>

\* ------------------------------------------------- change notifications
\* a broadcast message: its type and its path, from, to fields, each absent
\* ("none"), the empty string or a path; NullMsg is a null or undefined message
MsgTypes == {"create", "modify", "remove", "rename", "other"}
MsgFields == {"none", "", "/a"}
NullMsg == [type |-> "null", path |-> "none", from |-> "none", to |-> "none"]
Messages ==
  {NullMsg} \cup [type : MsgTypes, path : MsgFields, from : MsgFields, to : MsgFields]

\* JavaScript truthiness of a field: undefined and '' are falsy
Truthy(f) == f \notin {"none", ""}

Event(kind, path, from, to) == [event |-> kind, path |-> path, from |-> from, to |-> to]

\* a handler that looks at the type only
Forward_TypeOnly(msg) ==
  IF msg = NullMsg THEN None
  ELSE IF msg.type = "rename" THEN Some(Event("rename", "none", msg.from, msg.to))
  ELSE IF msg.type \in {"create", "modify", "remove"}
    THEN Some(Event(msg.type, msg.path, "none", "none"))
  ELSE None

\* the handler's body after the `!msg || !onChange` test: the event it passes
\* to onChange, if any
Forward(msg) ==
  IF msg = NullMsg THEN None
  ELSE IF msg.type = "rename" /\ Truthy(msg.from) /\ Truthy(msg.to)
    THEN Some(Event("rename", "none", msg.from, msg.to))
  ELSE IF msg.type \in {"create", "modify"} /\ Truthy(msg.path)
    THEN Some(Event(msg.type, msg.path, "none", "none"))
  ELSE IF msg.type = "remove" /\ Truthy(msg.path)
    THEN Some(Event("remove", msg.path, "none", "none"))
  ELSE None

\* an unsubscribe that leaves the listener on an open channel
HandlerAttached_AfterClose(state) == state \in {"listening", "closed"}

\* the handler is on the channel from addEventListener to the unsubscribe call
HandlerAttached(state) == state = "listening"

\* the path given to watchFS: its default '/', or a relative one
WatchPaths == { << "/" >>, << "a" >> }

\* how fs.watch ends: it returns at once, returns a thenable, or throws
WatchOutcomes == {"returns", "thenable", "throws"}

\* watchFS up to its first suspension point or its return
watchFS(k, path, onChange, how) ==
  /\ watchers[k].state = "idle"
  /\ fsHandle' = getFS(fsHandle)
  /\ watchers' = [watchers EXCEPT ![k] =
        [state |-> CASE how = "returns"  -> "listening"
                     [] how = "thenable" -> "awaitWatch"
                     [] OTHER            -> "failed",
         onChange |-> onChange]]
  /\ lastOp' = Op("watchFS", "none", how = "throws",
                  CASE how = "returns"  -> "ok"
                    [] how = "thenable" -> "pending"
                    [] OTHER            -> "threw",
                  Some([arg |-> path,
                        service |-> [method |-> "watch", path |-> normalizePath(path)],
                        watcher |-> k]), {})
  /\ UNCHANGED sandboxVars

\* the thenable fs.watch returned settles and watchFS continues
watchSettles(k, ok) ==
  /\ watchers[k].state = "awaitWatch"
  /\ watchers' = [watchers EXCEPT ![k].state = IF ok THEN "listening" ELSE "failed"]
  /\ lastOp' = Op("watchFS", "none", ~ok, IF ok THEN "ok" ELSE "threw",
                  Some([watcher |-> k]), {})
  /\ UNCHANGED << sandboxVars, fsHandle >>

\* a message is broadcast on the channel and reaches watcher k's context
notify(k, msg) ==
  /\ lastOp' = Op("notify", "none", FALSE, "ok",
        Some([watcher |-> k, msg |-> msg,
              onChange |-> IF HandlerAttached(watchers[k].state) /\ watchers[k].onChange
                             THEN Forward(msg) ELSE None]), {})
  /\ UNCHANGED << sandboxVars, fsVars >>

\* the function watchFS returned: removeEventListener and close
unsubscribe(k) ==
  /\ watchers[k].state \in {"listening", "closed"}
  /\ watchers' = [watchers EXCEPT ![k].state = "closed"]
  /\ lastOp' = Op("unsubscribe", "none", FALSE, "ok", Some([watcher |-> k]), {})
  /\ UNCHANGED << sandboxVars, fsHandle >>

\* callWorker with a message whose type is outside the protocol
callOther(w, type) ==
  /\ w \in 1..nWorkers
  /\ callWorker(w, type, NoCode, "other", "none")
  /\ lastOp' = Op("callOther", "none", FALSE, "pending", None, {})
  /\ UNCHANGED << registry, nWorkers, terminated, handles, outbox, workerVars, fsVars >>

\* an onMsg that stays registered after it has resolved its call
removeEventListener_Never(ls, hit) == ls

\* worker.removeEventListener('message', onMsg) in each listener that matched
removeEventListener(ls, hit) == ls \ hit

\* the page dispatches one 'message' event of worker w to its listeners; a
\* listener that matches removes itself and resolves its call, and the awaiting
\* create or runCode continues in the same turn
deliver(w) ==
  /\ Alive(w)
  /\ outbox[w] # << >>
  /\ LET r == Head(outbox[w])
         hit == { c \in listeners[w] : ListenerMatches(c, r.id) }
         made == { Sandbox(PendingCall(c).sandboxId, w) :
                     c \in { d \in hit : PendingCall(d).purpose = "create" } }
         ran == { c \in hit : PendingCall(c).purpose = "runCode" }
     IN  /\ outbox' = [outbox EXCEPT ![w] = Tail(@)]
         /\ listeners' = [listeners EXCEPT ![w] = removeEventListener(@, hit)]
         /\ pending' = { c \in pending : c.id \notin hit }
         /\ registry' = IF made = {} THEN registry ELSE MapSet(registry, The(made))
         /\ handles' = handles \cup made
         /\ lastOp' =
              IF hit = {} THEN lastOp
              ELSE Op(IF made # {} THEN "create" ELSE IF ran # {} THEN "runCode" ELSE "callOther",
                      "none", FALSE, "ok",
                      { makeExecutionResult(PendingCall(c).sandboxId, r) : c \in ran },
                      { [call |-> PendingCall(c), from |-> w, response |-> r] : c \in hit })
  /\ UNCHANGED << nWorkers, terminated, nCalls, callsLeft, inbox, workerVars, fsVars >>

Next ==
  \/ \E opt \in Runtimes, cfg \in Runtimes :
       \E sid \in (IF RuntimeSupported(ResolveRuntime(opt, cfg)) THEN UserSandboxIds ELSE {"none"}) :
         create(opt, cfg, sid)
  \/ \E id \in SandboxIdDomain, threw \in BOOLEAN, took \in BOOLEAN : destroy(id, threw, took)
  \/ \E sb \in handles, code \in Codes : runCode(sb, code)
  \/ \E sb \in handles \cup {GhostSandbox}, c \in Commands : runCommand(sb, c)
  \/ \E w \in Workers, t \in OtherTypes : callOther(w, t)
  \/ \E w \in Workers : deliver(w)
  \/ \E w \in Workers, imp \in ImportOutcomes : onmessage(w, imp)
  \/ \E w \in Workers, ok \in BOOLEAN : loadSettles(w, ok)
  \/ \E w \in Workers, i \in 1..MaxCalls : execCompletes(w, i)

Spec == Init /\ [][Next]_vars

\* the same system with the provider's calls that only read
ApiNext ==
  \/ Next
  \/ \E id \in SandboxIdDomain : getByIdCall(id)
  \/ listCall
  \/ \E sb \in handles : getInfo(sb)
  \/ getUrl
  \/ \E m \in FsMethods, p \in ProviderPaths, fault \in BOOLEAN : filesystem(m, p, fault)

ApiSpec == Init /\ [][ApiNext]_vars

\* creates, destroys and list alone, with one call for every worker that
\* may be spawned
RegInit == InitWith(MaxWorkers)

RegNext ==
  \/ \E opt \in Runtimes, cfg \in Runtimes :
       \E sid \in (IF RuntimeSupported(ResolveRuntime(opt, cfg)) THEN UserSandboxIds ELSE {"none"}) :
         create(opt, cfg, sid)
  \/ \E id \in SandboxIdDomain, threw \in BOOLEAN, took \in BOOLEAN : destroy(id, threw, took)
  \/ listCall
  \/ \E w \in Workers : deliver(w)
  \/ \E w \in Workers, imp \in ImportOutcomes : onmessage(w, imp)
  \/ \E w \in Workers, ok \in BOOLEAN : loadSettles(w, ok)
  \/ \E w \in Workers, i \in 1..MaxCalls : execCompletes(w, i)

RegSpec == RegInit /\ [][RegNext]_vars

\* the event loops of the page and of every worker run the tasks queued for
\* them, and the runtime load settles
Fairness ==
  \A w \in Workers :
    /\ WF_vars(\E imp \in ImportOutcomes : onmessage(w, imp))
    /\ WF_vars(\E ok \in BOOLEAN : loadSettles(w, ok))
    /\ WF_vars(\E i \in 1..MaxCalls : execCompletes(w, i))
    /\ WF_vars(deliver(w))

FairSpec == Init /\ [][Next]_vars /\ Fairness

\* the filesystem facade and the change-notification bridge on their own
FsNext ==
  \/ \E m \in FsMethods, p \in Paths, fault \in BOOLEAN : browserFsCall(m, p, fault)
  \/ \E k \in Watchers, p \in WatchPaths, cb \in BOOLEAN, how \in WatchOutcomes :
       watchFS(k, p, cb, how)
  \/ \E k \in Watchers, ok \in BOOLEAN : watchSettles(k, ok)
  \/ \E k \in Watchers, msg \in Messages : notify(k, msg)
  \/ \E k \in Watchers : unsubscribe(k)

FsSpec == Init /\ [][FsNext]_vars

\* ================================================================ claims

AllReplies == UNION { { outbox[w][i] : i \in 1..Len(outbox[w]) } : w \in Workers }
HasPending(id) == \E c \in pending : c.id = id

\* C1: every call that resolves does so with a reply that carries the id the
\* call attached to its request and that was posted by the worker the call
\* was made on, whatever the number of outstanding calls and the reply order.
C1_RoundTrip ==
  \A x \in lastOp.resolved :
    /\ x.response.id = x.call.id
    /\ x.from = x.call.worker

\* C1 witness: a call resolved while an earlier call on the same worker was
\* still outstanding (the worker replied out of request order).
C1_Witness ==
  \E x \in lastOp.resolved :
    /\ x.response.id = x.call.id
    /\ \E c \in pending : c.worker = x.call.worker /\ c.id < x.call.id

\* C2: after a destroy during which terminate() threw, the registry does not
\* contain the id: getById returns null and list does not include it.
C2_DestroyRemoves ==
  (lastOp.op = "destroy" /\ lastOp.fault) =>
    /\ getById(lastOp.sandboxId) = None
    /\ \A i \in 1..Len(list) : list[i].id # lastOp.sandboxId

\* C2 witness: a destroy whose terminate() threw has happened while another
\* sandbox stays registered.
C2_Witness ==
  /\ lastOp.op = "destroy" /\ lastOp.fault
  /\ ~MapHas(registry, lastOp.sandboxId)
  /\ Len(registry) > 0

\* C3 as stated: when terminate() throws during destroy, destroy completes
\* normally (the fault is swallowed).
C3_Original ==
  (lastOp.op = "destroy" /\ lastOp.fault) => lastOp.outcome = "ok"

\* C3 amended: destroy throws exactly when terminate() threw (the fault
\* reaches the caller after the finally clause removed the entry); otherwise
\* it returns normally.
C3_DestroyPropagates ==
  lastOp.op = "destroy" =>
    /\ lastOp.outcome = (IF lastOp.fault THEN "threw" ELSE "ok")
    /\ lastOp.fault => ~MapHas(registry, lastOp.sandboxId)

\* C3 witness: a destroy ended by throwing.
C3_Witness ==
  lastOp.op = "destroy" /\ lastOp.fault /\ lastOp.outcome = "threw"

Written(id, code) == IF code.prints THEN << Tok(id, "print") >> ELSE << >>
CodeOf(c) == IF c.type = "init" THEN ProbeCode ELSE c.code
Returned(r) == makeExecutionResult(PendingCall(r.id).sandboxId, r)
OnlyBy(text, id) == \A i \in 1..Len(text) : text[i].by = id

\* the reply was built by execWithCapture, so the call's code was run
Ran(r) == r.stdout # None \/ r.stderr = Some(<< Tok(r.id, "e.message") >>)

C6_OneAtATime ==
  \A w \in Workers :
    /\ Len(handlers[w]) <= 1
    /\ \A i \in 1..Len(outbox[w]), j \in 1..Len(handlers[w]) :
         handlers[w][j].id > outbox[w][i].id

\* the runtime kind create is asked for, in the words of the claim
RequestedRuntime(opt, cfg) ==
  CASE opt # "none" -> opt
    [] opt = "none" /\ cfg # "none" -> cfg
    [] OTHER -> "python"

\* C7: a create whose requested runtime is not 'python' throws, spawns no
\* worker, sends no init message and leaves the registry unchanged.
C7_CreateValidates ==
  [][ \A opt \in Runtimes, cfg \in Runtimes, sid \in UserSandboxIds :
        (RequestedRuntime(opt, cfg) # "python" /\ create(opt, cfg, sid)) =>
          /\ lastOp'.op = "create" /\ lastOp'.outcome = "threw"
          /\ nWorkers' = nWorkers
          /\ inbox' = inbox /\ nCalls' = nCalls /\ pending' = pending
          /\ registry' = registry /\ handles' = handles ]_vars

\* C7 witness: a create has thrown while a sandbox is registered.
C7_Witness ==
  lastOp.op = "create" /\ lastOp.outcome = "threw" /\ Len(registry) > 0

\* C8: runCommand on any sandbox object returns exit code 127 with that
\* sandbox's id, posts nothing and leaves the registry unchanged.
C8_RunCommand ==
  [][ \A sb \in handles \cup {GhostSandbox}, c \in Commands :
        runCommand(sb, c) =>
          /\ lastOp'.op = "runCommand" /\ lastOp'.outcome = "ok"
          /\ \E res \in lastOp'.result :
               lastOp'.result = {res} /\ res.exitCode = 127 /\ res.sandboxId = sb.id
          /\ inbox' = inbox /\ nCalls' = nCalls /\ listeners' = listeners
          /\ registry' = registry ]_vars

\* C8 witness: runCommand returned 127 for a sandbox that was destroyed.
C8_Witness ==
  /\ lastOp.op = "runCommand"
  /\ \E sb \in handles : \E res \in lastOp.result :
       /\ ~MapHas(registry, sb.id)
       /\ res.sandboxId = sb.id /\ res.exitCode = 127

\* C9: a message of a type other than 'init' and 'runCode' is answered with
\* {id, ok:false, exitCode:1, error:'Unknown message type: <type>'}, and
\* handling it starts no load and leaves the load state as it was.
C9_UnknownType ==
  [][ \A w \in Workers, imp \in ImportOutcomes :
        (onmessage(w, imp) /\ Head(inbox[w]).type \notin {"init", "runCode"}) =>
          /\ outbox'[w] = Append(outbox[w],
               [id |-> Head(inbox[w]).id, ok |-> FALSE, exitCode |-> {1},
                stdout |-> {}, stderr |-> {},
                error |-> {<< [by |-> Head(inbox[w]).id,
                               what |-> "Unknown message type: " \o Head(inbox[w]).type] >>}])
          /\ pyPromise' = pyPromise
          /\ loadStarts' = loadStarts
          /\ ensureCalls' = ensureCalls
          /\ handlers' = handlers ]_vars

\* C9 witness: an unknown-type reply was posted by a worker that is still
\* uninitialized.
C9_Witness ==
  \E w \in Workers : \E i \in 1..Len(outbox[w]) :
    /\ outbox[w][i].error = {<< [by |-> outbox[w][i].id, what |-> "Unknown message type: ping"] >>}
    /\ pyPromise[w] = "null"

\* C10: for every reply a worker posts, the result makeExecutionResult builds
\* from it has exit code 0 exactly when the reply's ok is true.
C10_ExitCodeIffOk ==
  \A r \in AllReplies :
    (makeExecutionResult("any", r).exitCode = 0) <=> r.ok

\* C10 witness: the reply of a run that ended with exit request 3 is in
\* flight: ok is false and the result built from it has exit code 3.
C10_Witness ==
  \E r \in AllReplies :
    /\ ~r.ok /\ r.exitCode = {3}
    /\ makeExecutionResult("any", r).exitCode = 3

\* the step dispatches, on the page, a reply of worker w that carries id
Delivers(w, id) ==
  /\ w \notin terminated
  /\ outbox[w] # << >>
  /\ Head(outbox[w]).id = id
  /\ outbox'[w] = Tail(outbox[w])

\* C11: a pending call leaves the pending set only in a step that dispatches
\* a reply of its own worker carrying its own id; the dispatch of any other
\* reply leaves it pending, and once its worker is terminated it is pending
\* in every later state (nothing times it out).
C11_NoTimeout ==
  [][ \A c \in pending :
        /\ c \notin pending' => Delivers(c.worker, c.id)
        /\ (\E w \in Workers : \E id \in 1..nCalls : id # c.id /\ Delivers(w, id))
             => c \in pending'
        /\ c.worker \in terminated => (c \in pending' /\ c.worker \in terminated') ]_vars

\* C11 witness: a runCode is outstanding on a worker that destroy terminated.
C11_Witness ==
  \E c \in pending :
    /\ c.purpose = "runCode"
    /\ c.worker \in terminated
    /\ ~MapHas(registry, c.sandboxId)

\* a step of a provider call that is neither create nor destroy
ReadOnlyStep ==
  \/ \E id \in SandboxIdDomain : getByIdCall(id)
  \/ listCall
  \/ \E sb \in handles : getInfo(sb)
  \/ getUrl
  \/ \E m \in FsMethods, p \in ProviderPaths, fault \in BOOLEAN : filesystem(m, p, fault)
  \/ \E sb \in handles, code \in Codes : runCode(sb, code)
  \/ \E sb \in handles \cup {GhostSandbox}, c \in Commands : runCommand(sb, c)

\* C12: getById, list, runCode, runCommand, getInfo, getUrl and the filesystem
\* operations leave the registry as it was; the registry changes only in a
\* step in which a create completes or a destroy runs; getById(id) returns the
\* sandbox registered under id, and null without throwing when there is none.
C12_RegistryFrame ==
  [][ /\ ReadOnlyStep => registry' = registry
      /\ registry' # registry =>
           \/ lastOp'.op = "create" /\ lastOp'.outcome = "ok"
           \/ lastOp'.op = "destroy"
      /\ \A id \in SandboxIdDomain :
           getByIdCall(id) =>
             /\ lastOp'.outcome = "ok"
             /\ IF \E i \in 1..Len(registry) : registry[i].id = id
                  THEN \E i \in 1..Len(registry) :
                         registry[i].id = id /\ lastOp'.result = {registry[i]}
                  ELSE lastOp'.result = {} ]_vars

\* C12 witness: getById of a destroyed sandbox's id returned null while
\* another sandbox stays registered.
C12_Witness ==
  /\ lastOp.op = "getById"
  /\ lastOp.result = {}
  /\ \E sb \in handles : sb.id = lastOp.sandboxId
  /\ Len(registry) > 0

\* what the last facade operation was given and what it passed to the service
FsArg == The(lastOp.result).arg
FsService == The(lastOp.result).service
BeginsWithSlash(p) == p # << >> /\ p[1] = "/"

\* C13: every facade operation passes the service a path that begins with
\* '/'; for a path p that does not begin with '/', the operation on p and the
\* operation on '/' + p pass the same path; normalizing a normalized path
\* changes nothing.
C13_PathNormalization ==
  lastOp.op \in FsMethods =>
    /\ BeginsWithSlash(FsService.path)
    /\ ~BeginsWithSlash(FsArg) =>
         /\ FsService.path = << "/" >> \o FsArg
         /\ \A fault \in BOOLEAN :
              browserFs(lastOp.op, << "/" >> \o FsArg, fault).service = FsService
    /\ normalizePath(FsService.path) = FsService.path
    /\ \A p \in Paths : normalizePath(normalizePath(p)) = normalizePath(p)

\* C13 witness: readFile("a") reached the service as readFile("/a").
C13_Witness ==
  /\ lastOp.op = "readFile"
  /\ FsArg = << "a" >>
  /\ FsService = [method |-> "readFile", path |-> << "/", "a" >>]

Subsequence(t, u) ==
  \A i, j \in 1..Len(t) :
    i < j => \E a, b \in 1..Len(u) : a < b /\ u[a] = t[i] /\ u[b] = t[j]

\* C15: list is the registered sandboxes in the order their creates completed:
\* a create that completes puts its sandbox last, after every sandbox still
\* registered, and every other step keeps the relative order of the entries.
C15_ListInCreationOrder ==
  [][ /\ handles' # handles =>
           \E sb \in handles' \ handles :
             list' = Append(SelectSeq(list, LAMBDA x : x.id # sb.id), sb)
      /\ handles' = handles => Subsequence(list', list) ]_vars

\* how many times id occurs in a sequence of messages, handlers or replies
CountIn(q, id) == Cardinality({ i \in 1..Len(q) : q[i].id = id })
InWorker(w, id) == CountIn(inbox[w], id) + CountIn(handlers[w], id) + CountIn(outbox[w], id)
Outstanding(id) == \E c \in pending : c.id = id /\ c.worker \notin terminated

Notified == The(lastOp.result)
Present(f) == f # "none"

\* C18: onChange is invoked for a broadcast message only when the message is
\* 'rename' with both from and to, or 'create'/'modify'/'remove' with a path;
\* the event's kind is the message type and its fields are the message's; any
\* other message is dropped and the handler returns normally; a watcher whose
\* unsubscribe function has been called is passed no event.
C18_OnlyWellFormedForwarded ==
  lastOp.op = "notify" =>
    LET msg == Notified.msg
        k == Notified.watcher IN
      /\ lastOp.outcome = "ok"
      /\ Notified.onChange # None =>
           LET e == The(Notified.onChange) IN
             /\ msg # NullMsg
             /\ e.event = msg.type
             /\ \/ /\ msg.type = "rename"
                   /\ Present(msg.from) /\ Present(msg.to)
                   /\ e.from = msg.from /\ e.to = msg.to
                \/ /\ msg.type \in {"create", "modify", "remove"}
                   /\ Present(msg.path)
                   /\ e.path = msg.path
      /\ watchers[k].state = "closed" => Notified.onChange = None

\* C18 witness: a rename with both names reached a listening watcher and was
\* passed on as a rename event.
C18_Witness ==
  /\ lastOp.op = "notify"
  /\ watchers[Notified.watcher].state = "listening"
  /\ Notified.msg.type = "rename"
  /\ Notified.onChange = Some(Event("rename", "none", "/a", "/a"))

\* a well-formed message broadcast after unsubscribe is passed to nobody
NotifiedAfterUnsubscribe ==
  /\ lastOp.op = "notify"
  /\ watchers[Notified.watcher].state = "closed"
  /\ watchers[Notified.watcher].onChange
  /\ Forward(Notified.msg) # None

\* C19: in every state the listeners callWorker has registered on a worker
\* are exactly its calls that have not resolved, and a call that has resolved
\* is no longer pending and has no listener, so no later reply carrying its
\* id can resolve it again.
C19_ListenersArePendingCalls ==
  /\ \A w \in Workers :
       listeners[w] = { c.id : c \in { d \in pending : d.worker = w } }
  /\ \A x \in lastOp.resolved :
       /\ x.call \notin pending
       /\ x.call.id \notin listeners[x.call.worker]

\* C19 witness: one call to a worker has just resolved while another call to
\* the same worker keeps its listener.
C19_Witness ==
  \E x \in lastOp.resolved :
    /\ listeners[x.from] # {}
    /\ \A id \in listeners[x.from] : \E c \in pending : c.id = id /\ c.worker = x.from

\* C20: every worker of a sandbox that a completed create returned, and that
\* has not been terminated, is the worker of some registry entry.
C20_NoLeakedWorker ==
  \A sb \in handles :
    sb.worker \notin terminated =>
      \E i \in 1..Len(registry) : registry[i].worker = sb.worker

\* the runtime of worker w is loaded: the memoized load promise is fulfilled
Ready(w) == pyPromise[w] = "resolved"

\* C21: a create that returns was resolved by an init reply with ok = true,
\* and every sandbox in the registry has a worker whose runtime is loaded.
C21_RegisteredAreReady ==
  /\ (lastOp.op = "create" /\ lastOp.outcome = "ok") =>
        /\ lastOp.resolved # {}
        /\ \A x \in lastOp.resolved : x.call.type = "init" /\ x.response.ok
  /\ \A i \in 1..Len(registry) : Ready(registry[i].worker)

\* a step of destroy(id), whether or not terminate() throws
DestroyStep(id) == \E threw \in BOOLEAN, took \in BOOLEAN : destroy(id, threw, took)

\* the registry entries under ids other than id, in order
Others(m, id) == SelectSeq(m, LAMBDA sb : sb.id # id)

\* C22: destroy(id) for an id that is not registered terminates no worker,
\* returns normally and leaves the registry unchanged; after any destroy(id)
\* the id is not registered, so a second destroy(id) leaves the registry the
\* first one left; and destroy(id) neither removes nor terminates a sandbox
\* registered under another id.
C22_DestroyIdempotent ==
  [][\A id \in SandboxIdDomain :
       DestroyStep(id) =>
         /\ ~MapHas(registry, id) =>
              /\ terminated' = terminated
              /\ registry' = registry
              /\ lastOp'.outcome = "ok"
         /\ ~MapHas(registry', id)
         /\ \A threw \in BOOLEAN : RegistryAfterDestroy(registry', id, threw) = registry'
         /\ Others(registry', id) = Others(registry, id)
         /\ \A i \in 1..Len(registry) :
              registry[i].id # id => registry[i].worker \notin terminated' \ terminated
    ]_vars

\* C22 witness: destroy was called with an id no create ever registered,
\* while a sandbox is registered and no worker has been terminated.
C22_Witness ==
  /\ lastOp.op = "destroy"
  /\ \A sb \in handles : sb.id # lastOp.sandboxId
  /\ Len(registry) > 0
  /\ terminated = {}

\* a destroy of one registered sandbox has happened while another stays
DestroyedOneOfTwo ==
  /\ lastOp.op = "destroy"
  /\ \E sb \in handles : sb.id = lastOp.sandboxId /\ sb.worker \in terminated
  /\ Len(registry) > 0

====
